---- MODULE Spec2Model ----
(***************************************************************************)
(* Model of the retry/priority meeting queue of the Zoom interview         *)
(* analysis system (src/src/zoom_bot/meeting_queue.py) and of the          *)
(* scheduler that drives it (src/src/zoom_bot/scheduler.py).               *)
(*                                                                         *)
(* Time is counted in whole minutes.  The heap is a bag of entries that is *)
(* popped in the order of Python's tuple comparison on                     *)
(* (scheduled_time, meeting_id, url, retry_count).  Every entry carries a  *)
(* history tag that records how it relates to the meeting table; the tag   *)
(* never influences what the code does.                                    *)
(***************************************************************************)
EXTENDS Integers, Sequences, FiniteSets, Bags, TLC

\* ---------------------------------------------------------------- bounds
\* the clock stops at MaxTime; clients make at most MaxCalls calls of
\* schedule_meeting and reschedule_meeting (the calls that push an entry)
\* and of the Scheduler
MaxTime == 2
MaxCalls == 2
\* the clock of the always-failing runs (SpecRetry) stops at MaxTimeRetry
MaxTimeRetry == 21
\* the history counter of join attempts stops counting at AttemptsCap
AttemptsCap == 4
\* the clock of the runs that record the dispatch order (SpecOrder) stops at
\* MaxTimeOrder
MaxTimeOrder == 1
\* the clock of the Scheduler runs (SpecSched) stops at MaxSchedTime and a
\* meeting has at most MaxThreads join worker threads alive at a time
MaxSchedTime == 5
MaxThreads == 2
\* the clock of the runs with failing loop ticks (SpecLoops) stops at
\* MaxLoopTime
MaxLoopTime == 4
\* the raw analysis text has at most MaxBlocks frame blocks, a call of the
\* averaging at most MaxFrames frames, and the question filter gets at most
\* MaxSegments transcript segments and MaxLines transcript lines
MaxBlocks == 2
MaxFrames == 2
MaxSegments == 2
MaxLines == 2

\* the status requests of one polling loop that are followed
MaxPollsSeen == 12

\* the minutes followed when the worker loop is fair
MaxTimeLive == 4

\* ------------------------------------------------------ program constants
GraceMinutes == 1
UrgentWindow == 15
UrgentRetryMinutes == 3
NormalRetryMinutes == 5
DefaultMaxRetries == 5

\* ----------------------------------------------------------------- inputs
MeetingIds == {1, 2}
Urls == {1}
RetryArgs == {0, 1}
\* max_retries in the always-failing runs
RetryArgsLong == {0, 1, 2}
\* requested time relative to the clock: past, boundary, soon, 15 and 16
\* minutes before the offset join time
Offsets == {-2, -1, 0, 14, 15}
\* delay_minutes of reschedule_meeting: <<>> is None, <<d>> an explicit delay
Delays == {<<>>, <<16>>}
Threads == {"worker", "client"}
CallbackResults == {"true", "false", "raise"}
\* the inputs of the runs that record the dispatch order (SpecOrder): two
\* URLs, join times now and now + 16, one retry, no delay or a delay of 0
OrderUrls == {1, 2}
OrderOffsets == {-1, 15}
OrderRetryArgs == {1}
OrderDelays == {<<>>, <<0>>}
\* the inputs of the Scheduler: a meeting time that is now or one minute
\* ahead, the status column of the rows found at startup, the pipeline of
\* the join worker (it succeeds, the Attendee API fails, the URL has no
\* meeting id, the controller cannot be constructed) and the database (it
\* works, its next write fails, it is down)
SchedOffsets == {0, 1}
PersistedStatuses == {"pending", "scheduled"}
StatusValues == {"pending", "scheduled", "joining", "completed", "failed"}
Pipelines == {"ok", "api_error", "no_id", "raise"}
DbOutcomes == {"ok", "first_fails", "down"}
\* the inputs of the runs with failing loop ticks (SpecLoops): a join time
\* one minute ahead, one retry, and the places of the loops
\* where an exception is raised: in the join callback, in the write of
\* "joining", in the reschedule that follows a callback that raised, in the
\* rest of a worker tick, in the periodic urgency check
LoopOffsets == {0}
LoopRetryArgs == {1}
FaultSites == {"callback", "persist", "retry", "tick", "check"}

VARIABLES now, meetings, queue, lock, cb, last, calls, schedCount, attempts, longDelay,
          dispatchTimes, running, toLoad, status, threads, slast,
          loops, poll, analytics

vars == <<now, meetings, queue, lock, cb, last, calls, schedCount, attempts, longDelay,
          dispatchTimes, running, toLoad, status, threads, slast,
          loops, poll, analytics>>

\* the state of the Queue, the state of the Scheduler
qvars == <<now, meetings, queue, lock, cb, calls, schedCount, attempts, longDelay>>

svars == <<running, toLoad, status, threads, slast>>

\* the background loops, the bot-status polling of the controller and the
\* analytics run
ovars == <<loops, poll, analytics>>

\* ---------------------------------------------------------------- helpers
NoCb == [active |-> FALSE, id |-> 0, url |-> 0, is_urgent |-> FALSE, src |-> "none"]

Op(o, m, t, r, g) == [op |-> o, id |-> m, t |-> t, res |-> r, tag |-> g]

Entry(t, m, u, rc, g) == [time |-> t, id |-> m, url |-> u, rc |-> rc, tag |-> g]

\* a heap whose tuples start with the meeting id
EntryLessById(a, b) ==
    \/ a.id < b.id
    \/ a.id = b.id /\ a.time < b.time
    \/ a.id = b.id /\ a.time = b.time /\ a.url < b.url
    \/ a.id = b.id /\ a.time = b.time /\ a.url = b.url /\ a.rc < b.rc

\* Python tuple comparison of two heap entries
EntryLess(a, b) ==
    \/ a.time < b.time
    \/ a.time = b.time /\ a.id < b.id
    \/ a.time = b.time /\ a.id = b.id /\ a.url < b.url
    \/ a.time = b.time /\ a.id = b.id /\ a.url = b.url /\ a.rc < b.rc

\* the entries heapq may have at index 0
HeapTop(q) == {e \in BagToSet(q) : \A f \in BagToSet(q) : ~EntryLess(f, e)}

\* history only: entries that are equal as tuples are interchangeable, so the
\* popped one counts as the latest pushed entry whenever one of them is
HeapPopChoice(q) ==
    IF \E e \in HeapTop(q) : e.tag = "live"
    THEN {e \in HeapTop(q) : e.tag = "live"}
    ELSE HeapTop(q)

\* a push that loses the entry
HeapPushLoses(q, e) == q

HeapPush(q, e) == q (+) SetToBag({e})

HeapPop(q, e) == q (-) SetToBag({e})

\* history only: change the tag of the entries of meeting m tagged in from
Retag(q, m, from, to) ==
    LET f(e) == IF e.id = m /\ e.tag \in from THEN [e EXCEPT !.tag = to] ELSE e
    IN  BagOfAll(f, q)

AllTags == {"live", "resched", "superseded", "cancelled", "orphan"}

\* a _remove_meeting that leaves the table as it is
RemoveMeetingKeeps(ms, m) == ms

RemoveMeeting(ms, m) == [x \in DOMAIN ms \ {m} |-> ms[x]]

PutMeeting(ms, m, rec) == [x \in DOMAIN ms \cup {m} |-> IF x = m THEN rec ELSE ms[x]]

Meeting(t, u, rc, mr, urg) ==
    [time |-> t, url |-> u, retry_count |-> rc, max_retries |-> mr, is_urgent |-> urg]

\* a Queue that runs its operations without taking the lock
LockNeverTaken(th) == TRUE

LockAvailable(th) == lock = "none"

\* a schedule_meeting that forgets the grace offset
ActualJoinTimeNoGrace(t) == t

ActualJoinTime(t) == t + GraceMinutes

\* a schedule_meeting that also bypasses the heap when the join time is now
InPastOrNow(actual, clock) == actual <= clock

InPast(actual, clock) == actual < clock

\* an urgency test that leaves out the meeting exactly 15 minutes away
IsUrgentStrict(actual, clock) == (actual - clock) < UrgentWindow

IsUrgentAt(actual, clock) == (actual - clock) <= UrgentWindow

\* a retry limit that allows one retry too many
RetriesExhaustedLate(rc, mr) == rc > mr

RetriesExhausted(rc, mr) == rc >= mr

RetryDelay(urg) == IF urg THEN UrgentRetryMinutes ELSE NormalRetryMinutes

\* a reschedule_meeting that ignores the urgency when no delay is given
EffectiveDelayNormal(d, urg) == IF d = <<>> THEN NormalRetryMinutes ELSE d[1]

EffectiveDelay(d, urg) == IF d = <<>> THEN RetryDelay(urg) ELSE d[1]

Bump(n, cap) == IF n < cap THEN n + 1 ELSE n

TypeOK ==
    /\ now \in 0..MaxTime \cup 0..MaxTimeRetry
    /\ DOMAIN meetings \subseteq MeetingIds
    /\ IsABag(queue)
    /\ lock \in Threads \cup {"none"}
    /\ status \in [MeetingIds -> StatusValues]
    /\ threads \in [MeetingIds -> 0..MaxThreads]
    /\ toLoad \subseteq MeetingIds

\* history only: the latest step of the Scheduler
SOp(o, m, r, p, b, w) ==
    [op |-> o, id |-> m, res |-> r, prev |-> p, by |-> b, wrote |-> w]

NoSOp == SOp("none", 0, "", "", "", "")

\* no background loop has been started; faults is history only: the places
\* where an exception has been raised in a loop so far
NoLoops == [worker |-> "none", scheduler |-> "none", faults |-> {}]

\* no bot is being polled
NoPoll == [pc |-> "idle"]

\* a call of a function of the analytics processor: its input, and its
\* result once it has returned
AnalyticsCall(f, in) == [fn |-> f, input |-> in, done |-> FALSE, out |-> << >>]

\* no analytics function has been called
NoAnalytics == AnalyticsCall("none", << >>)

\* ------------------------------------------------------------------- Init
\* the loops, the polling and the analytics before anything was started
OtherInit ==
    /\ loops = NoLoops
    /\ poll = NoPoll
    /\ analytics = NoAnalytics

\* the Scheduler before start(): no worker runs and nothing is loaded
SchedulerInit(rows) ==
    /\ running = FALSE
    /\ toLoad = {}
    /\ status \in rows
    /\ threads = [m \in MeetingIds |-> 0]
    /\ slast = NoSOp

\* the state after construction: no scheduled row in the database
Init ==
    /\ SchedulerInit({[m \in MeetingIds |-> "pending"]})
    /\ OtherInit
    /\ dispatchTimes = <<-1, -1>>
    /\ now = 0
    /\ meetings = << >>
    /\ queue = EmptyBag
    /\ lock = "none"
    /\ cb = [th \in Threads |-> NoCb]
    /\ last = Op("init", 0, 0, "", "")
    /\ calls = 0
    /\ schedCount = [m \in MeetingIds |-> 0]
    /\ attempts = [m \in MeetingIds |-> 0]
    /\ longDelay = {}

\* the clock advances
TickUpTo(bound) ==
    /\ now < bound
    /\ now' = now + 1
    /\ last' = Op("tick", 0, 0, "", "")
    /\ UNCHANGED <<meetings, queue, lock, cb, calls, schedCount, attempts, longDelay>>

Tick == TickUpTo(MaxTime)

\* -------------------------------------------------------- schedule_meeting
\* the part of schedule_meeting that runs before the join callback, and all
\* of it when the meeting is queued
schedule_meeting(th, m, u, t, mr) ==
    LET pending == m \in DOMAIN meetings
        ms1 == IF pending THEN RemoveMeeting(meetings, m) ELSE meetings
        q1 == IF pending THEN Retag(queue, m, {"live"}, "superseded") ELSE queue
        actual == ActualJoinTime(t)
    IN  /\ LockAvailable(th)
        /\ ~cb[th].active
        /\ calls < MaxCalls
        /\ calls' = calls + 1
        /\ schedCount' = [schedCount EXCEPT ![m] = Bump(@, 2)]
        /\ attempts' = [attempts EXCEPT ![m] = 0]
        /\ longDelay' = longDelay \ {m}
        /\ IF InPast(actual, now)
           THEN /\ meetings' = ms1
                /\ queue' = q1
                /\ lock' = th
                /\ cb' = [cb EXCEPT ![th] = [active |-> TRUE, id |-> m, url |-> u,
                                             is_urgent |-> FALSE, src |-> "schedule"]]
                /\ last' = Op("schedule", m, t, "bypass", "")
           ELSE /\ meetings' = PutMeeting(ms1, m,
                                   Meeting(actual, u, 0, mr, IsUrgentAt(actual, now)))
                /\ queue' = HeapPush(q1, Entry(actual, m, u, 0, "live"))
                /\ last' = Op("schedule", m, t, "queued", "")
                /\ UNCHANGED <<lock, cb>>
        /\ UNCHANGED now

\* the join callback invoked by schedule_meeting returns r (or raises) and
\* schedule_meeting returns it to its caller (or lets the exception through)
schedule_meeting_return(th, r) ==
    /\ cb[th].active
    /\ cb[th].src = "schedule"
    /\ lock' = "none"
    /\ cb' = [cb EXCEPT ![th] = NoCb]
    /\ last' = Op("schedule_return", cb[th].id, 0, r, "")
    /\ UNCHANGED <<now, meetings, queue, calls, schedCount, attempts, longDelay>>

\* ------------------------------------------------------ reschedule_meeting
\* a reschedule_meeting without the retry limit
RescheduleAcceptedNoLimit(ms, m) == m \in DOMAIN ms

RescheduleAccepted(ms, m) ==
    /\ m \in DOMAIN ms
    /\ ~RetriesExhausted(ms[m].retry_count, ms[m].max_retries)

\* a reschedule_meeting that counts a retry twice
RescheduledMeetingsCountsTwice(ms, m, d, clock) ==
    [ms EXCEPT ![m] = Meeting(clock + EffectiveDelay(d, @.is_urgent), @.url,
                              @.retry_count + 2, @.max_retries, @.is_urgent)]

RescheduledMeetings(ms, m, d, clock) ==
    [ms EXCEPT ![m] = Meeting(clock + EffectiveDelay(d, @.is_urgent), @.url,
                              @.retry_count + 1, @.max_retries, @.is_urgent)]

RescheduledQueue(q, ms, m, d, clock) ==
    HeapPush(Retag(q, m, {"live"}, "resched"),
             Entry(clock + EffectiveDelay(d, ms[m].is_urgent), m, ms[m].url,
                   ms[m].retry_count + 1, "live"))

\* history only: the delay_minutes argument as a number, -1 for None
DelayArg(d) == IF d = <<>> THEN -1 ELSE d[1]

\* history only: the meetings whose latest reschedule had an explicit delay
\* longer than the urgency window
LongDelayAfter(ld, m, d) ==
    IF d # <<>> /\ d[1] > UrgentWindow THEN ld \cup {m} ELSE ld \ {m}

reschedule_meeting(th, m, d) ==
    /\ LockAvailable(th)
    /\ ~cb[th].active
    /\ calls < MaxCalls
    /\ calls' = calls + 1
    /\ IF RescheduleAccepted(meetings, m)
       THEN /\ meetings' = RescheduledMeetings(meetings, m, d, now)
            /\ queue' = RescheduledQueue(queue, meetings, m, d, now)
            /\ longDelay' = LongDelayAfter(longDelay, m, d)
            /\ last' = Op("reschedule", m, DelayArg(d), "true", "")
       ELSE /\ last' = Op("reschedule", m, 0, "false", "")
            /\ UNCHANGED <<meetings, queue, longDelay>>
    /\ UNCHANGED <<now, lock, cb, schedCount, attempts>>

\* ---------------------------------------------------------- cancel_meeting
cancel_meeting(th, m) ==
    /\ LockAvailable(th)
    /\ ~cb[th].active
    /\ IF m \in DOMAIN meetings
       THEN /\ meetings' = RemoveMeeting(meetings, m)
            /\ queue' = Retag(queue, m, AllTags, "cancelled")
            /\ longDelay' = longDelay \ {m}
            /\ last' = Op("cancel", m, 0, "true", "")
       ELSE /\ last' = Op("cancel", m, 0, "false", "")
            /\ UNCHANGED <<meetings, queue, longDelay>>
    /\ UNCHANGED <<now, lock, cb, calls, schedCount, attempts>>

\* ----------------------------------------------- check_for_urgent_meetings
\* a check that computes every urgency flag anew
PromoteUrgentRecomputed(ms, clock) ==
    [x \in DOMAIN ms |-> [ms[x] EXCEPT !.is_urgent = IsUrgentAt(ms[x].time, clock)]]

PromoteUrgent(ms, clock) ==
    [x \in DOMAIN ms |->
        IF ~ms[x].is_urgent /\ IsUrgentAt(ms[x].time, clock)
        THEN [ms[x] EXCEPT !.is_urgent = TRUE]
        ELSE ms[x]]

check_for_urgent_meetings ==
    /\ LockAvailable("scheduler")
    /\ meetings' = PromoteUrgent(meetings, now)
    /\ last' = Op("check", 0, 0, "", "")
    /\ UNCHANGED <<now, queue, lock, cb, calls, schedCount, attempts, longDelay>>

\* ---------------------------------------------------- _process_next_meeting
\* a fencing check that only looks the meeting up
EntryIsStaleNoFence(ms, e) == e.id \notin DOMAIN ms

\* the fencing check made on a popped entry
EntryIsStale(ms, e) ==
    \/ e.id \notin DOMAIN ms
    \/ ms[e.id].retry_count # e.rc

\* one tick of the worker loop that finds the head of the heap due: the entry
\* is popped and either skipped or handed to _join_meeting, whose callback
\* is then in progress
process_next_meeting ==
    /\ LockAvailable("worker")
    /\ ~cb["worker"].active
    /\ \E e \in HeapPopChoice(queue) :
        /\ e.time <= now
        /\ queue' = HeapPop(queue, e)
        /\ IF EntryIsStale(meetings, e)
           THEN /\ last' = Op("discard", e.id, 0, "", e.tag)
                /\ UNCHANGED <<lock, cb, attempts>>
           ELSE /\ lock' = "worker"
                /\ cb' = [cb EXCEPT !["worker"] =
                            [active |-> TRUE, id |-> e.id, url |-> meetings[e.id].url,
                             is_urgent |-> meetings[e.id].is_urgent, src |-> "worker"]]
                /\ attempts' = [attempts EXCEPT ![e.id] = Bump(@, AttemptsCap)]
                /\ last' = Op("dispatch", e.id, 0, "", e.tag)
    /\ UNCHANGED <<now, meetings, calls, schedCount, longDelay>>

\* ------------------------------------------------------------ _join_meeting
\* the join callback invoked by _join_meeting returns r (or raises); the rest
\* of _join_meeting and of _process_next_meeting runs
join_meeting_return(r) ==
    LET m == cb["worker"].id
        d == <<RetryDelay(cb["worker"].is_urgent)>>
    IN  /\ cb["worker"].active
        /\ cb["worker"].src = "worker"
        /\ lock' = "none"
        /\ cb' = [cb EXCEPT !["worker"] = NoCb]
        /\ IF r = "true"
           THEN /\ meetings' = RemoveMeeting(meetings, m)
                /\ longDelay' = longDelay \ {m}
                /\ queue' = Retag(queue, m, {"live"}, "orphan")
                /\ last' = Op("joined", m, 0, "removed", "")
           ELSE IF RescheduleAccepted(meetings, m)
           THEN /\ meetings' = RescheduledMeetings(meetings, m, d, now)
                /\ queue' = RescheduledQueue(queue, meetings, m, d, now)
                /\ longDelay' = LongDelayAfter(longDelay, m, d)
                /\ last' = Op("join_failed", m, DelayArg(d), "retry", "")
           ELSE /\ last' = Op("join_failed", m, 0,
                              IF m \in DOMAIN meetings THEN "exhausted" ELSE "gone", "")
                /\ UNCHANGED <<meetings, queue, longDelay>>
        /\ UNCHANGED <<now, calls, schedCount, attempts>>

\* ---------------------------------------------------------- specification
\* the Queue on its own, driven by any client and any join callback
Next ==
    \/ Tick /\ UNCHANGED <<dispatchTimes, svars, ovars>>
    \/ \E m \in MeetingIds, u \in Urls, o \in Offsets, mr \in RetryArgs :
          /\ schedule_meeting("client", m, u, now + o, mr)
          /\ UNCHANGED <<dispatchTimes, svars, ovars>>
    \/ \E r \in CallbackResults :
          schedule_meeting_return("client", r) /\ UNCHANGED <<dispatchTimes, svars, ovars>>
    \/ \E m \in MeetingIds, d \in Delays :
          reschedule_meeting("client", m, d) /\ UNCHANGED <<dispatchTimes, svars, ovars>>
    \/ \E m \in MeetingIds :
          cancel_meeting("client", m) /\ UNCHANGED <<dispatchTimes, svars, ovars>>
    \/ check_for_urgent_meetings /\ UNCHANGED <<dispatchTimes, svars, ovars>>
    \/ process_next_meeting /\ UNCHANGED <<dispatchTimes, svars, ovars>>
    \/ \E r \in CallbackResults :
          join_meeting_return(r) /\ UNCHANGED <<dispatchTimes, svars, ovars>>

Spec == Init /\ [][Next]_vars

\* The Queue when every meeting id is scheduled once, every join callback
\* fails (returns false or raises) and nobody reschedules or cancels.
NextRetry ==
    \/ TickUpTo(MaxTimeRetry) /\ UNCHANGED <<dispatchTimes, svars, ovars>>
    \/ \E m \in MeetingIds, u \in Urls, o \in Offsets, mr \in RetryArgsLong :
          /\ schedCount[m] = 0
          /\ schedule_meeting("client", m, u, now + o, mr)
          /\ UNCHANGED <<dispatchTimes, svars, ovars>>
    \/ \E r \in {"false", "raise"} :
          schedule_meeting_return("client", r) /\ UNCHANGED <<dispatchTimes, svars, ovars>>
    \/ check_for_urgent_meetings /\ UNCHANGED <<dispatchTimes, svars, ovars>>
    \/ process_next_meeting /\ UNCHANGED <<dispatchTimes, svars, ovars>>
    \/ \E r \in {"false", "raise"} :
          join_meeting_return(r) /\ UNCHANGED <<dispatchTimes, svars, ovars>>

SpecRetry == Init /\ [][NextRetry]_vars

\* The Queue with its worker loop running: a client schedules every meeting id
\* once, reschedules and cancels; join callbacks succeed, fail or raise.
NextLive ==
    \/ TickUpTo(MaxTimeLive) /\ UNCHANGED <<dispatchTimes, svars, ovars>>
    \/ \E m \in MeetingIds, u \in Urls, o \in LoopOffsets, mr \in RetryArgs :
          /\ schedCount[m] = 0
          /\ schedule_meeting("client", m, u, now + o, mr)
          /\ UNCHANGED <<dispatchTimes, svars, ovars>>
    \/ \E m \in MeetingIds, d \in OrderDelays :
          reschedule_meeting("client", m, d) /\ UNCHANGED <<dispatchTimes, svars, ovars>>
    \/ \E m \in MeetingIds :
          cancel_meeting("client", m) /\ UNCHANGED <<dispatchTimes, svars, ovars>>
    \/ process_next_meeting /\ UNCHANGED <<dispatchTimes, svars, ovars>>
    \/ \E r \in CallbackResults :
          join_meeting_return(r) /\ UNCHANGED <<dispatchTimes, svars, ovars>>

\* the worker thread is not starved (it looks at the heap once per second),
\* every join callback returns, and time goes on
LiveFairness ==
    /\ WF_vars(process_next_meeting /\ UNCHANGED <<dispatchTimes, svars, ovars>>)
    /\ WF_vars(\E r \in CallbackResults :
                  join_meeting_return(r) /\ UNCHANGED <<dispatchTimes, svars, ovars>>)
    /\ WF_vars(TickUpTo(MaxTimeLive) /\ UNCHANGED <<dispatchTimes, svars, ovars>>)

SpecLive == Init /\ [][NextLive]_vars /\ LiveFairness

\* history only: the entry that the worker step has popped
Popped == CHOOSE e \in BagToSet(queue) : CopiesIn(e, queue') < CopiesIn(e, queue)

\* history only: the worker step together with the record of the scheduled
\* times of the latest two entries it handed to the join callback
process_next_meeting_recorded ==
    /\ process_next_meeting
    /\ dispatchTimes' = IF last'.op = "dispatch"
                        THEN <<dispatchTimes[2], Popped.time>>
                        ELSE dispatchTimes

\* The Queue with two URLs, meetings due now or in sixteen minutes, one
\* retry, reschedules without a delay or with a delay of 0, and the dispatch
\* times recorded.
NextOrder ==
    \/ TickUpTo(MaxTimeOrder) /\ UNCHANGED <<dispatchTimes, svars, ovars>>
    \/ \E m \in MeetingIds, u \in OrderUrls, o \in OrderOffsets, mr \in OrderRetryArgs :
          /\ schedule_meeting("client", m, u, now + o, mr)
          /\ UNCHANGED <<dispatchTimes, svars, ovars>>
    \/ \E m \in MeetingIds, d \in OrderDelays :
          reschedule_meeting("client", m, d) /\ UNCHANGED <<dispatchTimes, svars, ovars>>
    \/ \E m \in MeetingIds :
          cancel_meeting("client", m) /\ UNCHANGED <<dispatchTimes, svars, ovars>>
    \/ check_for_urgent_meetings /\ UNCHANGED <<dispatchTimes, svars, ovars>>
    \/ process_next_meeting_recorded /\ UNCHANGED <<svars, ovars>>
    \/ \E r \in CallbackResults :
          join_meeting_return(r) /\ UNCHANGED <<dispatchTimes, svars, ovars>>

SpecOrder == Init /\ [][NextOrder]_vars

\* ---------------------------------------------------------------- Scheduler
\* the scheduled_time column of the row of meeting m; the Scheduler never
\* writes it
PersistedTime(m) == m

\* history only: a step of the Scheduler that does not call the Queue
QueueUntouched(o, m) ==
    /\ last' = Op(o, m, 0, "", "")
    /\ UNCHANGED qvars

\* history only: a step of the Queue that does not concern the Scheduler
SchedulerUntouched ==
    /\ slast' = NoSOp
    /\ UNCHANGED <<running, toLoad, status, threads, dispatchTimes>>

\* ZoomBotController.join_and_record_meeting: the four result paths, all
\* None when a request to the Attendee API fails
JoinAndRecord(p) ==
    IF p = "ok"
    THEN <<"recording", "transcript", "analytics", "insights">>
    ELSE <<"None", "None", "None", "None">>

\* ZoomBotController.join_meeting: None (here the empty function) when the
\* URL has no meeting id, else the dict of the results
ControllerJoinMeeting(p) ==
    IF p = "no_id"
    THEN << >>
    ELSE [recording_path |-> JoinAndRecord(p)[1],
          transcript_path |-> JoinAndRecord(p)[2],
          analytics_path |-> JoinAndRecord(p)[3],
          insights_path |-> JoinAndRecord(p)[4]]

\* the truth value Python gives the result: None and {} are false
Truthy(result) == DOMAIN result # {}

\* the status that _join_meeting_thread persists, "none" when it persists
\* nothing: the write of the try block, and the write of the except block
\* when the controller or that first write raised
WrittenStatus(p, db) ==
    IF db = "down" THEN "none"
    ELSE IF p = "raise" THEN (IF db = "ok" THEN "failed" ELSE "none")
    ELSE IF db = "first_fails" THEN "failed"
    ELSE IF Truthy(ControllerJoinMeeting(p)) THEN "completed"
    ELSE "failed"

Persist(st, m, value) == IF value = "none" THEN st ELSE [st EXCEPT ![m] = value]

\* a join_meeting_now that reports a failure whatever happened
JoinNowReturnsFalse(dbOk) == "false"

\* what join_meeting_now returns: True after thread.start(), False from the
\* except block when the write of "joining" raised
JoinNowReturns(dbOk) == IF dbOk THEN "true" ELSE "false"

\* a join_meeting_now that starts the thread whether or not "joining" was
\* persisted
ThreadsAfterJoinNowAlways(th, m, dbOk) == [th EXCEPT ![m] = @ + 1]

ThreadsAfterJoinNow(th, m, dbOk) == IF dbOk THEN [th EXCEPT ![m] = @ + 1] ELSE th

\* join_meeting_now called by thread `by`: the effect on the Scheduler
join_meeting_now(by, m, dbOk) ==
    /\ threads[m] < MaxThreads
    /\ status' = Persist(status, m, IF dbOk THEN "joining" ELSE "none")
    /\ threads' = ThreadsAfterJoinNow(threads, m, dbOk)
    /\ slast' = SOp("join_meeting_now", m, JoinNowReturns(dbOk), status[m], by,
                    IF dbOk THEN "joining" ELSE "none")

\* the join callback of the Queue is join_meeting_now: the worker calls it
\* for the dispatched meeting and _join_meeting goes on with its result
worker_join_meeting_now(dbOk) ==
    /\ cb["worker"].active
    /\ join_meeting_now("worker", cb["worker"].id, dbOk)
    /\ join_meeting_return(JoinNowReturns(dbOk))
    /\ UNCHANGED <<running, toLoad, dispatchTimes>>

\* _join_meeting_thread runs the pipeline p and persists the outcome
join_meeting_thread(m, p, db) ==
    /\ threads[m] > 0
    /\ threads' = [threads EXCEPT ![m] = @ - 1]
    /\ status' = Persist(status, m, WrittenStatus(p, db))
    /\ slast' = SOp("thread_done", m, p, status[m], "thread", WrittenStatus(p, db))
    /\ QueueUntouched("thread", m)
    /\ UNCHANGED <<running, toLoad, dispatchTimes>>

\* a schedule_meeting of the Scheduler that also joins a meeting one
\* minute ahead at once
IsImmediateEarly(t, clock) == t - clock <= 1

IsImmediate(t, clock) == t - clock <= 0

\* ZoomBotScheduler.schedule_meeting called by thread `by`: an immediate
\* join, or a registration with the Queue followed by the write of
\* "scheduled"
scheduler_schedule_meeting(by, m, u, t, dbOk) ==
    IF IsImmediate(t, now)
    THEN /\ join_meeting_now(by, m, dbOk)
         /\ calls < MaxCalls
         /\ calls' = calls + 1
         /\ last' = Op("join_meeting_now", m, 0, "", "")
         /\ UNCHANGED <<now, meetings, queue, lock, cb, schedCount, attempts, longDelay>>
    ELSE /\ schedule_meeting("client", m, u, t, DefaultMaxRetries)
         /\ status' = Persist(status, m, IF dbOk THEN "scheduled" ELSE "none")
         /\ slast' = SOp("schedule", m, IF dbOk THEN "true" ELSE "false", status[m], by,
                         IF dbOk THEN "scheduled" ELSE "none")
         /\ UNCHANGED threads

\* ZoomBotScheduler.start: the loops start and _load_scheduled_meetings
\* selects the rows with status 'scheduled'
start(dbOk) ==
    /\ ~running
    /\ running' = TRUE
    /\ toLoad' = IF dbOk THEN {m \in MeetingIds : status[m] = "scheduled"} ELSE {}
    /\ slast' = SOp("start", 0, IF dbOk THEN "true" ELSE "false", "", "main", "none")
    /\ QueueUntouched("start", 0)
    /\ UNCHANGED <<status, threads, dispatchTimes>>

\* a loader that also registers the meeting whose time is now
IsFutureOrNow(t, clock) == t >= clock

IsFuture(t, clock) == t > clock

\* one turn of the loop of _load_scheduled_meetings, for the row of m
load_scheduled_meeting(m, dbOk) ==
    /\ m \in toLoad
    /\ toLoad' = toLoad \ {m}
    /\ IF IsFuture(PersistedTime(m), now)
       THEN scheduler_schedule_meeting("loader", m, 1, PersistedTime(m), dbOk)
       ELSE /\ slast' = SOp("skip", m, "", status[m], "loader", "none")
            /\ QueueUntouched("skip", m)
            /\ UNCHANGED <<status, threads>>
    /\ UNCHANGED <<running, dispatchTimes>>

\* start() has returned
Loaded == running /\ toLoad = {}

\* The Scheduler and its Queue: start() loads the persisted rows, clients
\* then schedule meetings for now or the next minute, the worker hands due
\* meetings to join_meeting_now, and the join worker threads run pipelines
\* of any outcome over a database of any health.
NextSched ==
    \/ TickUpTo(MaxSchedTime) /\ SchedulerUntouched /\ UNCHANGED ovars
    \/ \E dbOk \in BOOLEAN : start(dbOk) /\ UNCHANGED ovars
    \/ \E m \in MeetingIds, dbOk \in BOOLEAN :
          load_scheduled_meeting(m, dbOk) /\ UNCHANGED ovars
    \/ \E m \in MeetingIds, u \in Urls, o \in SchedOffsets, dbOk \in BOOLEAN :
          /\ Loaded
          /\ scheduler_schedule_meeting("client", m, u, now + o, dbOk)
          /\ UNCHANGED <<running, toLoad, dispatchTimes, ovars>>
    \/ running /\ check_for_urgent_meetings /\ SchedulerUntouched /\ UNCHANGED ovars
    \/ running /\ process_next_meeting /\ SchedulerUntouched /\ UNCHANGED ovars
    \/ \E dbOk \in BOOLEAN : worker_join_meeting_now(dbOk) /\ UNCHANGED ovars
    \/ \E m \in MeetingIds, p \in Pipelines, db \in DbOutcomes :
          join_meeting_thread(m, p, db) /\ UNCHANGED ovars

\* the state after construction, over any rows left by earlier runs
InitSched ==
    /\ SchedulerInit([MeetingIds -> PersistedStatuses])
    /\ OtherInit
    /\ dispatchTimes = <<-1, -1>>
    /\ now = 0
    /\ meetings = << >>
    /\ queue = EmptyBag
    /\ lock = "none"
    /\ cb = [th \in Threads |-> NoCb]
    /\ last = Op("init", 0, 0, "", "")
    /\ calls = 0
    /\ schedCount = [m \in MeetingIds |-> 0]
    /\ attempts = [m \in MeetingIds |-> 0]
    /\ longDelay = {}

SpecSched == InitSched /\ [][NextSched]_vars

\* --------------------------------------------------------- background loops
\* a _process_queue whose loop body has no try/except
CaughtAtNoLoopGuard(site) ==
    CASE site = "callback" -> "_join_meeting"
      [] site = "persist" -> "join_meeting_now"
      [] site = "retry" -> "thread"
      [] site = "tick" -> "thread"
      [] site = "check" -> "_check_urgent_meetings"

\* the function whose except clause catches an exception (an Exception of
\* Python) raised at the site; "thread" would say that none does and the
\* exception leaves the target function of the loop's thread
CaughtAt(site) ==
    CASE site = "callback" -> "_join_meeting"
      [] site = "persist" -> "join_meeting_now"
      [] site = "retry" -> "_process_queue"
      [] site = "tick" -> "_process_queue"
      [] site = "check" -> "_check_urgent_meetings"

\* the state of a loop after an exception raised at the site
LoopAfter(state, site) == IF CaughtAt(site) = "thread" THEN "dead" ELSE state

Faulted(l, loop, site) ==
    [l EXCEPT ![loop] = LoopAfter(@, site), !.faults = @ \cup {site}]

\* ZoomBotScheduler.start: the thread of _scheduler_loop and, by
\* MeetingQueue.start, the thread of _process_queue are started
loops_start(dbOk) ==
    /\ start(dbOk)
    /\ loops' = [loops EXCEPT !.worker = "running", !.scheduler = "running"]
    /\ UNCHANGED <<poll, analytics>>

\* one turn of the while loop of _process_queue that finds the head due
loop_process_next_meeting ==
    /\ loops.worker = "running"
    /\ process_next_meeting
    /\ SchedulerUntouched
    /\ UNCHANGED ovars

\* the callback join_meeting_now returns to _join_meeting; a write of
\* "joining" that fails is an exception caught in join_meeting_now
loop_join_meeting_now(dbOk) ==
    /\ worker_join_meeting_now(dbOk)
    /\ loops' = IF dbOk THEN loops ELSE Faulted(loops, "worker", "persist")
    /\ UNCHANGED <<poll, analytics>>

\* the callback raises: _join_meeting catches the exception and reschedules
loop_callback_raises ==
    /\ join_meeting_return("raise")
    /\ SchedulerUntouched
    /\ loops' = Faulted(loops, "worker", "callback")
    /\ UNCHANGED <<poll, analytics>>

\* an exception leaves _process_next_meeting: raised before the head is
\* examined ("tick"), or by the reschedule_meeting in the except block of
\* _join_meeting after the callback raised ("retry"), in which case the
\* popped entry is gone and the meeting stays in the table; the with
\* statement releases the lock
loop_tick_raises(site) ==
    /\ loops.worker = "running"
    /\ IF site = "retry"
       THEN /\ cb["worker"].active
            /\ cb["worker"].src = "worker"
            /\ lock' = "none"
            /\ cb' = [cb EXCEPT !["worker"] = NoCb]
            /\ last' = Op("tick_error", cb["worker"].id, 0, site, "")
       ELSE /\ LockAvailable("worker")
            /\ ~cb["worker"].active
            /\ last' = Op("tick_error", 0, 0, site, "")
            /\ UNCHANGED <<lock, cb>>
    /\ loops' = Faulted(loops, "worker", site)
    /\ UNCHANGED <<now, meetings, queue, calls, schedCount, attempts, longDelay>>
    /\ SchedulerUntouched
    /\ UNCHANGED <<poll, analytics>>

\* the job _check_urgent_meetings run by _scheduler_loop: the check itself,
\* or an exception of the check caught by the job before anything changed
loop_check_urgent_meetings(raises) ==
    /\ loops.scheduler = "running"
    /\ IF raises
       THEN /\ QueueUntouched("check_error", 0)
            /\ loops' = Faulted(loops, "scheduler", "check")
       ELSE /\ check_for_urgent_meetings
            /\ UNCHANGED loops
    /\ SchedulerUntouched
    /\ UNCHANGED <<poll, analytics>>

\* The started Scheduler with no persisted row: clients schedule meetings
\* with the Queue for the next minute, and exceptions are raised in
\* the ticks of both loops.
NextLoops ==
    \/ TickUpTo(MaxLoopTime) /\ SchedulerUntouched /\ UNCHANGED ovars
    \/ \E dbOk \in BOOLEAN : loops_start(dbOk)
    \/ \E m \in MeetingIds, u \in Urls, o \in LoopOffsets, mr \in LoopRetryArgs :
          /\ running
          /\ schedule_meeting("client", m, u, now + o, mr)
          /\ SchedulerUntouched
          /\ UNCHANGED ovars
    \/ loop_process_next_meeting
    \/ \E dbOk \in BOOLEAN : loop_join_meeting_now(dbOk)
    \/ loop_callback_raises
    \/ \E site \in {"tick", "retry"} : loop_tick_raises(site)
    \/ \E raises \in BOOLEAN : loop_check_urgent_meetings(raises)

SpecLoops == Init /\ [][NextLoops]_vars

\* ---------------------------------------------------------------- analytics
\* Times are counted in milliseconds and scores in hundredths, so that the
\* floating-point seconds and scores of the program are integers here.
SeqsUpTo(S, n) == UNION {[1..k -> S] : k \in 0..n}

\* the text of a number field: a decimal number, digits and dots that are no
\* number ("1.2.3"), or text with no digit ("abc")
Num(v) == [kind |-> "num", val |-> v]

Dots == [kind |-> "dots", val |-> 0]

Alpha == [kind |-> "alpha", val |-> 0]

EmotionScore(n, sc) == [name |-> n, score |-> sc]

\* a FacePrediction block of the raw text: the text of its time field and
\* its list emotions=[...], which a block may lack
Block(t, l, es) == [time |-> t, has_list |-> l, entries |-> es]

EmotionLists ==
    {<< >>,
     <<EmotionScore("joy", Num(40))>>,
     <<EmotionScore("joy", Num(40)), EmotionScore("fear", Dots)>>}

Blocks ==
    {Block(t, TRUE, es) : t \in {Num(0), Num(1000), Dots, Alpha}, es \in EmotionLists}
        \cup {Block(Num(0), FALSE, << >>)}

\* the argument hume_data: a dict with the raw text, a dict without it, or
\* a value that is no dict
HumeData ==
    {[kind |-> "raw", raw |-> r] : r \in SeqsUpTo(Blocks, MaxBlocks)}
        \cup {[kind |-> k, raw |-> << >>] : k \in {"no_raw_result", "not_a_dict"}}

\* the prefix FacePrediction\(frame=\d+,\s*time=([0-9.]+) matches at a block
\* whose time field starts with digits or dots
MarkerMatches(b) == b.time.kind \in {"num", "dots"}

\* .*?emotions=\[(.*?)\] with re.DOTALL: the first emotions list at or after
\* block i, 0 when there is none
RECURSIVE NextList(_, _)
NextList(raw, i) ==
    IF i > Len(raw) THEN 0
    ELSE IF raw[i].has_list THEN i
    ELSE NextList(raw, i + 1)

\* re.findall(pattern, raw, re.DOTALL) from block i on: the pairs
\* (time_str, emotions_str) of the matches, which do not overlap
RECURSIVE FindAll(_, _)
FindAll(raw, i) ==
    IF i > Len(raw) THEN << >>
    ELSE IF ~MarkerMatches(raw[i]) THEN FindAll(raw, i + 1)
    ELSE IF NextList(raw, i) = 0 THEN << >>
    ELSE <<[time_str |-> raw[i].time, emotions_str |-> raw[NextList(raw, i)].entries]>>
             \o FindAll(raw, NextList(raw, i) + 1)

\* float(score_str), 0.0 on a ValueError
ScoreOf(tok) == IF tok.kind = "num" THEN tok.val ELSE 0

\* the entries found by emotion_pattern in the text of an emotions list
ParseEmotions(es) ==
    [k \in 1..Len(es) |-> [name |-> es[k].name, score |-> ScoreOf(es[k].score)]]

Frame(t, es) == [time |-> t, emotions |-> es]

\* the loop over the matches: a time that float() rejects skips the match,
\* and so does an empty list of emotions
RECURSIVE FramesOf(_)
FramesOf(ms) ==
    IF ms = << >> THEN << >>
    ELSE IF Head(ms).time_str.kind # "num" THEN FramesOf(Tail(ms))
    ELSE IF ParseEmotions(Head(ms).emotions_str) = << >> THEN FramesOf(Tail(ms))
    ELSE <<Frame(Head(ms).time_str.val, ParseEmotions(Head(ms).emotions_str))>>
             \o FramesOf(Tail(ms))

\* _extract_emotion_frames_from_raw: [] when there is no raw text and, from
\* the except block, when hume_data has no get()
ExtractEmotionFrames(h) ==
    IF h.kind = "raw" THEN FramesOf(FindAll(h.raw, 1)) ELSE << >>

extract_emotion_frames_from_raw ==
    /\ analytics.fn = "extract"
    /\ ~analytics.done
    /\ analytics' = [analytics EXCEPT !.done = TRUE,
                                      !.out = ExtractEmotionFrames(analytics.input)]

\* the frames handed to the averaging and the time window of the segment
FrameEmotions ==
    {<<[name |-> "joy", score |-> 40]>>,
     <<[name |-> "joy", score |-> 20], [name |-> "fear", score |-> 60]>>}

Frames == {Frame(t, es) : t \in {0, 1000, 2000}, es \in FrameEmotions}

AverageInputs ==
    {[frames |-> fs, start_time |-> st, end_time |-> st + d] :
        fs \in SeqsUpTo(Frames, MaxFrames), st \in {0, 1000}, d \in {0, 1000}}

\* a window that is open at its end
InWindowOpenEnd(start_time, t, end_time) == start_time <= t /\ t < end_time

InWindow(start_time, t, end_time) == start_time <= t /\ t <= end_time

\* the indices of the selected frames
SelectedFrames(frames, start_time, end_time) ==
    {k \in 1..Len(frames) : InWindow(start_time, frames[k].time, end_time)}

RECURSIVE SumSeq(_)
SumSeq(ns) == IF ns = << >> THEN 0 ELSE Head(ns) + SumSeq(Tail(ns))

\* what one frame adds to emotion_totals[name]
FrameTotal(frame, n) ==
    SumSeq([k \in DOMAIN frame.emotions |->
               IF frame.emotions[k].name = n THEN frame.emotions[k].score ELSE 0])

EmotionTotal(frames, sel, n) ==
    SumSeq([k \in 1..Len(frames) |-> IF k \in sel THEN FrameTotal(frames[k], n) ELSE 0])

\* the keys of emotion_totals
NamesIn(frames, sel) ==
    UNION {{frames[k].emotions[j].name : j \in DOMAIN frames[k].emotions} : k \in sel}

\* a divisor that counts the frames in which the emotion occurs
CountOfOccurrences(frames, sel, n) ==
    Cardinality({k \in sel : \E j \in DOMAIN frames[k].emotions :
                                 frames[k].emotions[j].name = n})

\* the divisor of total / count: the number of selected frames
Count(frames, sel, n) == Cardinality(sel)

\* _average_emotions_for_segment: the quotient total / count is kept as
\* the pair of its terms
AverageEmotions(frames, start_time, end_time) ==
    LET sel == SelectedFrames(frames, start_time, end_time)
    IN  IF sel = {} THEN << >>
        ELSE [n \in NamesIn(frames, sel) |->
                 [total |-> EmotionTotal(frames, sel, n),
                  count |-> Count(frames, sel, n)]]

\* selected is history only
average_emotions_for_segment ==
    /\ analytics.fn = "average"
    /\ ~analytics.done
    /\ analytics' =
          [analytics EXCEPT
              !.done = TRUE,
              !.out = [selected |-> SelectedFrames(analytics.input.frames,
                                                   analytics.input.start_time,
                                                   analytics.input.end_time),
                       avg_emotions |-> AverageEmotions(analytics.input.frames,
                                                        analytics.input.start_time,
                                                        analytics.input.end_time)]]

\* a line of the transcript text: whether it has a "|", names the
\* candidate, is a question by the indicators, contains a deny-listed
\* phrase, and the text before the "|"
Line(b, c, q, ir, ts) ==
    [bar |-> b, candidate |-> c, question |-> q, irrelevant |-> ir, timestamp |-> ts]

\* the text of a timestamp: "MM:SS", or text that int() rejects
MinSec(m, sec) == [kind |-> "mmss", minutes |-> m, seconds |-> sec]

BadStamp == [kind |-> "bad", minutes |-> 0, seconds |-> 0]

\* int(minutes) * 60 + int(seconds), 0 from the bare except
TimeSeconds(ts) == IF ts.kind = "mmss" THEN ts.minutes * 60 + ts.seconds ELSE 0

Lines ==
    {Line(TRUE, FALSE, TRUE, FALSE, ts) :
        ts \in {MinSec(0, 2), MinSec(20, 0), BadStamp}}
        \cup {Line(TRUE, TRUE, TRUE, FALSE, MinSec(0, 2)),
              Line(TRUE, FALSE, TRUE, TRUE, MinSec(0, 2)),
              Line(FALSE, FALSE, FALSE, FALSE, BadStamp)}

\* a transcript segment with its averaged emotions: its relative start, a
\* float of seconds, and the average score of each emotion
Segment(st, avg) == [start |-> st, avg_emotions |-> avg]

AvgEmotions ==
    {<< >>,
     [n \in {"joy"} |-> 60],
     [n \in {"joy", "fear"} |-> IF n = "joy" THEN 40 ELSE 60]}

Segments == {Segment(st, avg) : st \in {0, 2000, 1500000}, avg \in AvgEmotions}

FilterInputs ==
    {[segments |-> sg, lines |-> ls] :
        sg \in SeqsUpTo(Segments, MaxSegments), ls \in SeqsUpTo(Lines, MaxLines)}

\* the two loops that build questions and relevant_questions: the indices
\* of the lines that survive, in order
RECURSIVE RelevantFrom(_, _)
RelevantFrom(lines, i) ==
    IF i > Len(lines) THEN << >>
    ELSE IF /\ lines[i].bar
            /\ ~lines[i].candidate
            /\ lines[i].question
            /\ ~lines[i].irrelevant
         THEN <<[index |-> i, time_seconds |-> TimeSeconds(lines[i].timestamp)]>>
                  \o RelevantFrom(lines, i + 1)
         ELSE RelevantFrom(lines, i + 1)

RelevantQuestions(lines) == RelevantFrom(lines, 1)

\* seg_start after "convert to seconds if it's not already": a float below
\* 1000 (seconds) is kept, any other is divided by 1000.  The quotient is
\* rounded down to a whole millisecond, which changes no comparison with
\* the whole seconds of a question.
ConvertedStart(st) == IF st < 1000 * 1000 THEN st ELSE st \div 1000

\* start_time <= seg_start and seg_start < end_time, where an end of -1
\* stands for float('inf')
InAnswerRange(start_time, seg_start, end_time) ==
    /\ start_time * 1000 <= seg_start
    /\ (end_time = -1 \/ seg_start < end_time * 1000)

EndTime(qs, i) == IF i < Len(qs) THEN qs[i + 1].time_seconds ELSE -1

\* response_segments of question i: the indices of its segments, in order
ResponseSegments(segments, qs, i) ==
    {k \in 1..Len(segments) :
        InAnswerRange(qs[i].time_seconds, ConvertedStart(segments[k].start), EndTime(qs, i))}

\* the key of max(): the largest averaged score, 0 without scores
StrongestKey(seg) ==
    IF DOMAIN seg.avg_emotions = {} THEN 0
    ELSE CHOOSE v \in {seg.avg_emotions[n] : n \in DOMAIN seg.avg_emotions} :
            \A n \in DOMAIN seg.avg_emotions : seg.avg_emotions[n] <= v

\* max(response_segments, key=...): the first segment with the largest key
Strongest(segments, rs) ==
    CHOOSE k \in rs :
        /\ \A j \in rs : StrongestKey(segments[j]) <= StrongestKey(segments[k])
        /\ \A j \in rs : j < k => StrongestKey(segments[j]) < StrongestKey(segments[k])

RECURSIVE PairsFrom(_, _, _)
PairsFrom(segments, qs, i) ==
    IF i > Len(qs) THEN << >>
    ELSE IF ResponseSegments(segments, qs, i) = {} THEN PairsFrom(segments, qs, i + 1)
    ELSE <<[question |-> qs[i].index,
            response |-> Strongest(segments, ResponseSegments(segments, qs, i)),
            all_response_segments |-> ResponseSegments(segments, qs, i)]>>
             \o PairsFrom(segments, qs, i + 1)

\* _filter_relevant_questions: the pairs name lines and segments by index
FilterRelevantQuestions(segments, lines) ==
    PairsFrom(segments, RelevantQuestions(lines), 1)

filter_relevant_questions ==
    /\ analytics.fn = "filter"
    /\ ~analytics.done
    /\ analytics' =
          [analytics EXCEPT
              !.done = TRUE,
              !.out = FilterRelevantQuestions(analytics.input.segments,
                                              analytics.input.lines)]

\* the three functions of the analytics processor, each called on any input
AnalyticsUntouched ==
    /\ last' = Op("analytics", 0, 0, "", "")
    /\ UNCHANGED <<qvars, dispatchTimes, svars, loops, poll>>

NextAnalytics ==
    \/ extract_emotion_frames_from_raw /\ AnalyticsUntouched
    \/ average_emotions_for_segment /\ AnalyticsUntouched
    \/ filter_relevant_questions /\ AnalyticsUntouched

InitAnalytics ==
    /\ analytics \in {AnalyticsCall("extract", h) : h \in HumeData}
                        \cup {AnalyticsCall("average", a) : a \in AverageInputs}
                        \cup {AnalyticsCall("filter", f) : f \in FilterInputs}
    /\ loops = NoLoops
    /\ poll = NoPoll
    /\ SchedulerInit({[m \in MeetingIds |-> "pending"]})
    /\ dispatchTimes = <<-1, -1>>
    /\ now = 0
    /\ meetings = << >>
    /\ queue = EmptyBag
    /\ lock = "none"
    /\ cb = [th \in Threads |-> NoCb]
    /\ last = Op("init", 0, 0, "", "")
    /\ calls = 0
    /\ schedCount = [m \in MeetingIds |-> 0]
    /\ attempts = [m \in MeetingIds |-> 0]
    /\ longDelay = {}

SpecAnalytics == InitAnalytics /\ [][NextAnalytics]_vars

\* ------------------------------------------- bot-status polling (controller)
\* states of a bot, of its recording and of its transcription that the status
\* endpoint reports; the loop tests for "joined_recording", "ended",
\* "complete" and "failed", the other values stand for every other answer
BotStates == {"joining", "joined_recording", "ended", "fatal_error"}

RecordingStates == {"in_progress", "complete"}

TranscriptionStates == {"in_progress", "complete", "failed"}

\* seconds between two polls, and the seconds of polling after the recording
\* has started
poll_interval_seconds == 30

max_poll_time == 120

max_polls == max_poll_time \div poll_interval_seconds

\* join_and_record_meeting has created the bot and enters the loop; polls is
\* history only: the status requests made so far
poll_start ==
    /\ poll.pc = "idle"
    /\ poll' = [pc |-> "polling", poll_count |-> 0,
                recording_started |-> FALSE, recording_available |-> FALSE,
                transcript_available |-> FALSE, polls |-> 0]

\* the flags after the answer has been looked at
PollSeen(p, state, recording_state, transcription_state) ==
    LET started == state = "joined_recording" /\ ~p.recording_started
        ended == state = "ended"
    IN  [p EXCEPT
          !.recording_started = p.recording_started \/ started,
          !.poll_count = IF started THEN 0 ELSE p.poll_count,
          !.recording_available =
              p.recording_available \/ (ended /\ recording_state = "complete"),
          !.transcript_available =
              p.transcript_available
                  \/ (ended /\ transcription_state = "complete")]

\* the loop is left: both parts are complete, or the recording is complete
\* and the transcription has failed, or the poll count has reached max_polls
PollBreaks(p, state, transcription_state) ==
    \/ /\ state = "ended"
       /\ p.recording_available
       /\ p.transcript_available \/ transcription_state = "failed"
    \/ p.poll_count >= max_polls

\* one pass of the loop: the status request returns an answer, the flags are
\* set, and the loop either ends (going on to the download when the recording
\* is available) or sleeps and counts the poll if the recording has started
poll_status(state, recording_state, transcription_state) ==
    /\ poll.pc = "polling"
    /\ poll.polls < MaxPollsSeen
    /\ LET seen == PollSeen([poll EXCEPT !.polls = poll.polls + 1],
                            state, recording_state, transcription_state)
       IN  poll' =
             IF PollBreaks(seen, state, transcription_state)
             THEN [seen EXCEPT
                     !.pc = IF seen.recording_available
                            THEN "download" ELSE "gave_up"]
             ELSE [seen EXCEPT
                     !.poll_count = IF seen.recording_started
                                    THEN seen.poll_count + 1
                                    ELSE seen.poll_count]

\* the status request answers with an error status: raise_for_status raises
\* and the function returns through its except block
poll_request_fails ==
    /\ poll.pc = "polling"
    /\ poll.polls < MaxPollsSeen
    /\ poll' = [poll EXCEPT !.pc = "error", !.polls = poll.polls + 1]

PollUntouched ==
    /\ last' = Op("poll", 0, 0, "", "")
    /\ UNCHANGED <<qvars, dispatchTimes, svars, loops, analytics>>

NextPoll ==
    \/ poll_start /\ PollUntouched
    \/ \E state \in BotStates, recording_state \in RecordingStates,
          transcription_state \in TranscriptionStates :
          poll_status(state, recording_state, transcription_state)
             /\ PollUntouched
    \/ poll_request_fails /\ PollUntouched

SpecPoll == Init /\ [][NextPoll]_vars

\* ------------------------------------------------------------ properties
EntriesOf(m) == {e \in BagToSet(queue) : e.id = m}

\* the number of heap entries of meeting m that are the latest one pushed
LiveCopies(m) ==
    BagCardinality([e \in {x \in EntriesOf(m) : x.tag = "live"} |-> queue[e]])

\* C8 (grace offset): whenever schedule_meeting(id, url, t) queues a meeting,
\* the join time stored in the meeting table and the time of the heap entry
\* it pushes are both t + 1 minute (60 seconds), with retry_count 0, and
\* that entry is the only one it pushes.
C8_GraceOffset ==
    (last.op = "schedule" /\ last.res = "queued")
        => /\ last.id \in DOMAIN meetings
           /\ meetings[last.id].time = last.t + 1
           /\ meetings[last.id].retry_count = 0
           /\ LiveCopies(last.id) = 1
           /\ \A e \in EntriesOf(last.id) :
                 e.tag = "live" => (e.time = last.t + 1 /\ e.rc = 0)

\* a meeting has just been queued by schedule_meeting
C8_Witness ==
    /\ last.op = "schedule"
    /\ last.res = "queued"
    /\ last.id \in DOMAIN meetings
    /\ \E e \in BagToSet(queue) : e.id = last.id /\ e.tag = "live"

\* the worker has just popped an entry of a meeting id that schedule_meeting
\* was called for at most once
PoppedOfSingleSchedule ==
    /\ last.op \in {"dispatch", "discard"}
    /\ schedCount[last.id] <= 1

C2_SupersededNeverJoined == ~(last.op = "dispatch" /\ last.tag = "superseded")

\* C3 (cancellation): an entry pushed before a successful cancel_meeting of
\* its id never causes a join callback, whatever follows.
C3_CancelledNeverJoined == ~(last.op = "dispatch" /\ last.tag = "cancelled")

JoinInProgress(m) == \E th \in Threads : cb[th].active /\ cb[th].id = m

\* no heap entry of meeting m is left and no join of it is in progress
Silent(m) == EntriesOf(m) = {} /\ ~JoinInProgress(m)

\* C4 (retry bound): when the join callback always fails, a queued meeting
\* with max_retries = N gets at most N + 1 join callbacks from the worker
\* loop, and exactly N + 1 once no entry of it is left and no join is in
\* progress.
C4_RetryBound ==
    \A m \in DOMAIN meetings :
        /\ attempts[m] <= meetings[m].max_retries + 1
        /\ Silent(m) => attempts[m] = meetings[m].max_retries + 1

\* an urgent meeting with max_retries = 2 has had its three attempts and a
\* meeting with max_retries = 1 that never became urgent its two attempts,
\* and both are silent
C4_Witness ==
    /\ \E m \in DOMAIN meetings :
          meetings[m].max_retries = 2 /\ attempts[m] = 3 /\ Silent(m)
    /\ \E m \in DOMAIN meetings :
          /\ meetings[m].max_retries = 1
          /\ ~meetings[m].is_urgent
          /\ attempts[m] = 2
          /\ Silent(m)

\* C5 (retry exhaustion): when a join attempt fails and the meeting has no
\* retry left, the meeting id is removed from the meeting table.
C5_ExhaustedDropped ==
    (last.op = "join_failed" /\ last.res = "exhausted") => last.id \notin DOMAIN meetings

\* C6 (no concurrent joins): two join callbacks for the same meeting id are
\* never in progress at the same time.
C6_NoConcurrentJoin ==
    \A t1 \in Threads, t2 \in Threads :
        (t1 # t2 /\ cb[t1].active /\ cb[t2].active) => cb[t1].id # cb[t2].id

\* a join callback is in progress on the worker while its meeting is pending
C6_Witness ==
    /\ cb["worker"].active
    /\ cb["worker"].id \in DOMAIN meetings
    /\ last.op = "dispatch"

\* C7 (lock scope): the Queue's lock is not held while a join callback is
\* executing.
C7_LockFreeDuringCallback == \A th \in Threads : cb[th].active => lock = "none"

WithinUrgentWindow(m) == meetings[m].time - now <= 15

\* C10 (urgency threshold), as the code has it: schedule_meeting stores
\* is_urgent = true iff the offset join time is at most 15 minutes away; and
\* right after check_for_urgent_meetings every pending meeting at most 15
\* minutes away is urgent, and an urgent one is at most 15 minutes away
\* unless its latest reschedule had an explicit delay of more than 15
\* minutes.
C10_UrgencyThreshold ==
    /\ (last.op = "schedule" /\ last.res = "queued")
          => (meetings[last.id].is_urgent <=> WithinUrgentWindow(last.id))
    /\ last.op = "check"
          => \A m \in DOMAIN meetings :
                /\ WithinUrgentWindow(m) => meetings[m].is_urgent
                /\ meetings[m].is_urgent => (WithinUrgentWindow(m) \/ m \in longDelay)

\* after a check, one pending meeting is urgent and exactly 15 minutes away
\* and another is further away and not urgent
C10_Witness ==
    /\ last.op = "check"
    /\ \E m \in DOMAIN meetings :
          meetings[m].is_urgent /\ meetings[m].time - now = 15
    /\ \E m \in DOMAIN meetings :
          ~meetings[m].is_urgent /\ ~WithinUrgentWindow(m)

\* C10 as claimed: right after check_for_urgent_meetings every pending
\* meeting is urgent iff it is at most 15 minutes away.
C10_UrgentIffWithinWindow ==
    last.op = "check"
        => \A m \in DOMAIN meetings : meetings[m].is_urgent <=> WithinUrgentWindow(m)

\* C11 (dispatch order): of any two entries that the worker hands to the
\* join callback one after the other, the first has a scheduled time less
\* than or equal to that of the second, whatever schedule, reschedule and
\* cancel calls come in between; and no entry is handed over before its own
\* scheduled time.
C11_DispatchOrder ==
    /\ dispatchTimes[1] <= dispatchTimes[2]
    /\ dispatchTimes[2] <= now

\* the worker has just dispatched an entry with a later scheduled time than
\* the entry it dispatched before
C11_Witness ==
    /\ last.op = "dispatch"
    /\ 0 <= dispatchTimes[1]
    /\ dispatchTimes[1] < dispatchTimes[2]

\* C12 (callback exceptions): an exception raised by the join callback never
\* leaves the Queue operation that invoked the callback; on the past-time
\* path of schedule_meeting that means the call does not end by raising.
C12_RaiseTreatedAsFailure == last.op = "schedule_return" => last.res # "raise"

\* the heap without the history tags: a bag of Python tuples
Untagged(q) ==
    LET f(e) == <<e.time, e.id, e.url, e.rc>>
    IN  BagOfAll(f, q)

\* reschedule_meeting has just returned true (l is the record of the step)
RescheduleSucceeded(l) ==
    \/ l.op = "reschedule" /\ l.res = "true"
    \/ l.op = "join_failed" /\ l.res = "retry"

\* C13 (reschedule): a reschedule_meeting(M, delay) that returns true adds 1
\* to the stored retry_count of M, sets its stored time to now + delay (3
\* minutes for an urgent M and 5 otherwise when no delay is given), keeps
\* url, max_retries and is_urgent, leaves the other meetings alone and adds
\* to the heap exactly one entry, which carries the new time and the new
\* retry_count.
C13_RescheduleEffect ==
    [][RescheduleSucceeded(last') =>
        LET m == last'.id
            old == meetings[m]
            new == meetings'[m]
            delay == IF last'.t = -1 THEN (IF old.is_urgent THEN 3 ELSE 5) ELSE last'.t
        IN  /\ m \in DOMAIN meetings
            /\ DOMAIN meetings' = DOMAIN meetings
            /\ new.retry_count = old.retry_count + 1
            /\ new.time = now + delay
            /\ new.url = old.url
            /\ new.max_retries = old.max_retries
            /\ new.is_urgent = old.is_urgent
            /\ \A x \in DOMAIN meetings \ {m} : meetings'[x] = meetings[x]
            /\ Untagged(queue') =
                  Untagged(queue) (+) SetToBag({<<new.time, m, new.url, new.retry_count>>})
    ]_vars

\* a client has just rescheduled, without a delay, a meeting with the second
\* URL that is not urgent
C13_Witness ==
    /\ last.op = "reschedule"
    /\ last.res = "true"
    /\ last.t = -1
    /\ last.id \in DOMAIN meetings
    /\ ~meetings[last.id].is_urgent
    /\ meetings[last.id].url = 2
    /\ meetings[last.id].retry_count = 1
    /\ meetings[last.id].time = now + 5

\* C14 (reschedule refused): reschedule_meeting(M) returns false when M is
\* not in the meeting table or when its retry_count >= max_retries, and a
\* reschedule_meeting that returns false leaves the table and the heap as
\* they were.
C14_RescheduleRefused ==
    [][/\ last'.op = "reschedule" =>
            LET m == last'.id
            IN  /\ m \notin DOMAIN meetings => last'.res = "false"
                /\ (m \in DOMAIN meetings
                      /\ meetings[m].retry_count >= meetings[m].max_retries)
                      => last'.res = "false"
                /\ last'.res = "false" => (meetings' = meetings /\ queue' = queue)
       /\ (last'.op = "join_failed" /\ last'.res # "retry")
            => (meetings' = meetings /\ queue' = queue)
    ]_vars

\* a client's reschedule_meeting of a pending meeting that has used up its
\* retries has just returned false, with entries of the meeting in the heap
C14_Witness ==
    /\ last.op = "reschedule"
    /\ last.res = "false"
    /\ last.id \in DOMAIN meetings
    /\ meetings[last.id].retry_count = meetings[last.id].max_retries
    /\ EntriesOf(last.id) # {}

\* C15 (success removes): when the join callback of a dispatched meeting M
\* returns true, M leaves the meeting table; the worker hands an entry to
\* the join callback only if its meeting is in the table; and a meeting
\* enters the table only by a schedule_meeting for it.
C15_JoinedStaysOut ==
    [][/\ last'.op = "joined" =>
            /\ cb["worker"].active
            /\ cb["worker"].id = last'.id
            /\ last'.id \notin DOMAIN meetings'
       /\ last'.op = "dispatch" => last'.id \in DOMAIN meetings
       /\ \A m \in MeetingIds :
            (m \notin DOMAIN meetings /\ m \in DOMAIN meetings')
                => (last'.op = "schedule" /\ last'.id = m)
    ]_vars

\* an entry that was still in the heap when its meeting was joined has just
\* been popped and skipped, the meeting not having been scheduled again
C15_Witness ==
    /\ last.op = "discard"
    /\ last.tag = "orphan"
    /\ last.id \notin DOMAIN meetings

\* C16 (join worker outcome): when the pipeline run by the join worker
\* thread fails (it raises or cannot join) and the thread persists a
\* status, that status is "failed"; "completed" is persisted only when the
\* pipeline succeeded.
C16_FailedPipelineIsFailed ==
    (slast.op = "thread_done" /\ slast.res # "ok" /\ slast.wrote # "none")
        => slast.wrote = "failed"

C18_TerminalStatusStays ==
    (slast.by = "worker" /\ slast.prev \in {"completed", "failed"}) => slast.wrote = "none"

C20_StartupRecovery ==
    /\ (slast.op = "start" /\ slast.res = "true")
          => toLoad = {m \in MeetingIds : status[m] = "scheduled"}
    /\ slast.by = "loader" =>
          /\ slast.prev = "scheduled"
          /\ status[slast.id] = "scheduled"
          /\ threads[slast.id] = 0
          /\ IF PersistedTime(slast.id) > now
             THEN /\ slast.op = "schedule"
                  /\ slast.id \in DOMAIN meetings
                  /\ meetings[slast.id].time = PersistedTime(slast.id) + 1
                  /\ LiveCopies(slast.id) = 1
             ELSE /\ slast.op = "skip"
                  /\ slast.wrote = "none"
                  /\ slast.id \notin DOMAIN meetings
                  /\ EntriesOf(slast.id) = {}
    /\ slast.by = "loader" => \A m \in DOMAIN meetings : status[m] = "scheduled"

\* the loader has just skipped a scheduled row whose time is past, after
\* registering another row
C20_Witness ==
    /\ slast.by = "loader"
    /\ slast.op = "skip"
    /\ PersistedTime(slast.id) < now
    /\ status[slast.id] = "scheduled"
    /\ \E m \in DOMAIN meetings : m # slast.id /\ status[m] = "scheduled"

\* the head of the heap is due and the worker is between two ticks
HeadDue ==
    /\ lock = "none"
    /\ ~cb["worker"].active
    /\ \E e \in HeapTop(queue) : e.time <= now

\* C21 (loops survive): after start(), whatever exceptions were raised in
\* the ticks of the worker loop (in the join callback, in the write of
\* "joining", anywhere else in the tick) or in the periodic urgency check,
\* both loops are still running, and whenever the head of the heap is due
\* the worker loop can take its next tick and pop it.
C21_LoopsSurvive ==
    running =>
        /\ loops.worker = "running"
        /\ loops.scheduler = "running"
        /\ HeadDue => ENABLED loop_process_next_meeting

\* after exceptions in the join callback, in the write of "joining", in the
\* rest of a worker tick and in the urgency check, the worker has just
\* handed a meeting that became due later to the join callback
C21_Witness ==
    /\ {"callback", "persist", "tick", "check"} \subseteq loops.faults
    /\ last.op = "dispatch"
    /\ last.id \in DOMAIN meetings
    /\ meetings[last.id].retry_count = 0
    /\ now >= 1

FilterDone == analytics.fn = "filter" /\ analytics.done

\* the response segments that the output gives the question of a line: those
\* of its pair, none when it has no pair
ResponsesInOutput(out, line) ==
    UNION {out[p].all_response_segments : p \in {x \in 1..Len(out) : out[x].question = line}}

\* the segments whose start, in seconds, lies in the answer window of
\* surviving question i
AnswerWindow(segments, qs, i) ==
    {k \in 1..Len(segments) :
        /\ qs[i].time_seconds * 1000 <= segments[k].start
        /\ (i = Len(qs) \/ segments[k].start < qs[i + 1].time_seconds * 1000)}

\* C22 (answer window): in the result of filter_relevant_questions a segment
\* is among the response segments of surviving question i exactly when
\* time(question i) <= segment.start < time(next surviving question), with
\* no upper bound for the last question, for every value of segment.start
\* in seconds.
C22_AnswerWindow ==
    FilterDone =>
        LET qs == RelevantQuestions(analytics.input.lines)
        IN  \A i \in 1..Len(qs) :
                ResponsesInOutput(analytics.out, qs[i].index)
                    = AnswerWindow(analytics.input.segments, qs, i)

\* C23 (representative response): every surviving question with a segment
\* in its answer window has a pair whose response is the first segment of
\* the window with the largest maximum averaged score (0 without scores),
\* and a question with no segment in its window has no pair.
C23_Representative ==
    FilterDone =>
        LET segs == analytics.input.segments
            qs == RelevantQuestions(analytics.input.lines)
            out == analytics.out
        IN  \A i \in 1..Len(qs) :
                LET w == AnswerWindow(segs, qs, i)
                    ps == {p \in 1..Len(out) : out[p].question = qs[i].index}
                IN  IF w = {}
                    THEN ps = {}
                    ELSE /\ ps # {}
                         /\ \A p \in ps :
                               /\ out[p].response \in w
                               /\ \A j \in w :
                                     /\ StrongestKey(segs[j]) <= StrongestKey(segs[out[p].response])
                                     /\ j < out[p].response =>
                                           StrongestKey(segs[j]) < StrongestKey(segs[out[p].response])

AverageDone == analytics.fn = "average" /\ analytics.done

\* C24 (closed interval): average_emotions_for_segment selects exactly the
\* frames with start <= time <= end, both bounds included, and returns the
\* empty mapping when it selects none.
C24_ClosedInterval ==
    AverageDone =>
        /\ analytics.out.selected =
              {k \in 1..Len(analytics.input.frames) :
                  /\ analytics.input.frames[k].time >= analytics.input.start_time
                  /\ analytics.input.frames[k].time <= analytics.input.end_time}
        /\ analytics.out.selected = {} => analytics.out.avg_emotions = << >>

\* a frame at the end of the window has been selected and a later frame has
\* not
C24_Witness ==
    /\ AverageDone
    /\ analytics.input.start_time < analytics.input.end_time
    /\ \E k \in analytics.out.selected :
          analytics.input.frames[k].time = analytics.input.end_time
    /\ \E k \in 1..Len(analytics.input.frames) : k \notin analytics.out.selected
    /\ DOMAIN analytics.out.avg_emotions # {}

\* the frames of the call in which emotion n occurs
FramesWith(frames, sel, n) ==
    {k \in sel : \E j \in DOMAIN frames[k].emotions : frames[k].emotions[j].name = n}

\* C25 (averaging divisor): for every emotion that occurs in a selected
\* frame, the returned quotient total / count equals the sum of the
\* emotion's scores over the selected frames divided by the number of
\* selected frames.
C25_AveragingDivisor ==
    AverageDone =>
        LET frames == analytics.input.frames
            sel == analytics.out.selected
            avg == analytics.out.avg_emotions
        IN  \A n \in {"joy", "fear"} :
                FramesWith(frames, sel, n) # {} =>
                    /\ n \in DOMAIN avg
                    /\ avg[n].count > 0
                    /\ avg[n].total * Cardinality(sel)
                          = EmotionTotal(frames, sel, n) * avg[n].count

\* two frames have been selected and fear, which occurs in one of them only,
\* has been averaged over both
C25_Witness ==
    /\ AverageDone
    /\ Cardinality(analytics.out.selected) = 2
    /\ Cardinality(FramesWith(analytics.input.frames, analytics.out.selected, "fear")) = 1
    /\ analytics.out.avg_emotions["fear"] = [total |-> 60, count |-> 2]

\* the frames of the blocks, from block i on, that have a number as their
\* time and an emotions list with at least one entry
RECURSIVE OwnFramesFrom(_, _)
OwnFramesFrom(raw, i) ==
    IF i > Len(raw) THEN << >>
    ELSE IF raw[i].time.kind = "num" /\ raw[i].has_list /\ raw[i].entries # << >>
         THEN <<Frame(raw[i].time.val, ParseEmotions(raw[i].entries))>>
                  \o OwnFramesFrom(raw, i + 1)
         ELSE OwnFramesFrom(raw, i + 1)

\* C26 (extraction): extract_emotion_frames returns, in input order, one
\* frame for each block with a numeric time and at least one emotion,
\* carrying that block's own time and emotions; a block without emotions
\* or with a malformed time adds nothing.
C26_OwnFrames ==
    (analytics.fn = "extract" /\ analytics.done) =>
        analytics.out = IF analytics.input.kind = "raw"
                        THEN OwnFramesFrom(analytics.input.raw, 1)
                        ELSE << >>

\* C28 (retry_count): the stored retry_count of every pending meeting is at
\* least 0 and at most its max_retries; from one state to the next it
\* changes only by +1, in a reschedule_meeting that returns true, or back
\* to 0, in a schedule_meeting of the meeting; and a meeting enters the
\* table with retry_count 0.
C28_RetryCountBounds ==
    /\ [](\A m \in DOMAIN meetings :
            0 <= meetings[m].retry_count
                /\ meetings[m].retry_count <= meetings[m].max_retries)
    /\ [][\A m \in DOMAIN meetings' :
            IF m \in DOMAIN meetings
            THEN meetings'[m].retry_count # meetings[m].retry_count =>
                    \/ /\ meetings'[m].retry_count = meetings[m].retry_count + 1
                       /\ RescheduleSucceeded(last')
                       /\ last'.id = m
                    \/ /\ meetings'[m].retry_count = 0
                       /\ last'.op = "schedule"
                       /\ last'.id = m
            ELSE /\ meetings'[m].retry_count = 0
                 /\ last'.op = "schedule"
                 /\ last'.id = m
       ]_vars

\* a reschedule_meeting has just used the last retry of a meeting
C28_Witness ==
    /\ RescheduleSucceeded(last)
    /\ last.id \in DOMAIN meetings
    /\ meetings[last.id].retry_count = 1
    /\ meetings[last.id].max_retries = 1

\* C29 (urgency check): check_for_urgent_meetings leaves the heap, the set
\* of pending meetings and every meeting's time, url, retry_count and
\* max_retries as they were and changes is_urgent only from false to true;
\* and neither it nor reschedule_meeting turns a true is_urgent of a
\* pending meeting to false.
C29_UrgentCheckFrame ==
    [][/\ last'.op = "check" =>
            /\ queue' = queue
            /\ DOMAIN meetings' = DOMAIN meetings
            /\ \A m \in DOMAIN meetings :
                  /\ meetings'[m].time = meetings[m].time
                  /\ meetings'[m].url = meetings[m].url
                  /\ meetings'[m].retry_count = meetings[m].retry_count
                  /\ meetings'[m].max_retries = meetings[m].max_retries
       /\ last'.op \in {"check", "reschedule", "join_failed"} =>
            \A m \in DOMAIN meetings :
                meetings[m].is_urgent => (m \in DOMAIN meetings' /\ meetings'[m].is_urgent)
    ]_vars

\* a check has just left urgent a meeting that a reschedule had moved more
\* than 15 minutes away
C29_Witness ==
    /\ last.op = "check"
    /\ \E m \in DOMAIN meetings :
          /\ meetings[m].is_urgent
          /\ ~WithinUrgentWindow(m)
          /\ meetings[m].retry_count = 1

\* C30: the polling loop ends after a bounded number of status requests.
\* After the recording has started the loop makes at most max_polls + 1 more
\* requests; the claim gives no number for the requests before, so the bound
\* tried here is the largest number of requests that is followed.
C30_BoundedPolls ==
    poll.pc = "polling" => poll.polls < MaxPollsSeen

\* the meeting is in the state table
Pending(m) == m \in DOMAIN meetings

\* the worker is inside the join callback for the meeting
InCallback(m) == cb["worker"].active /\ cb["worker"].id = m

\* the heap entries of the meeting that pass the fencing check
FencedEntries(m) ==
    {e \in BagToSet(queue) : e.id = m /\ ~EntryIsStale(meetings, e)}

\* the minutes followed end before the meeting's next attempt is due
BeyondHorizon(m) ==
    /\ now = MaxTimeLive
    /\ ~InCallback(m)
    /\ FencedEntries(m) # {}
    /\ \A e \in FencedEntries(m) : e.time > now

\* the meeting has had max_retries + 1 attempts and the last has returned
AllAttemptsFailed(m) ==
    /\ Pending(m)
    /\ ~InCallback(m)
    /\ attempts[m] >= meetings[m].max_retries + 1

\* the meeting is out of retries: every retry is used, and the attempt made
\* for the last of them has returned without success
OutOfRetries(m) ==
    /\ Pending(m)
    /\ ~InCallback(m)
    /\ meetings[m].retry_count = meetings[m].max_retries
    /\ FencedEntries(m) = {}
    /\ attempts[m] >= 1

\* C27 as stated: a meeting in the state table is eventually removed from it
\* or has had max_retries + 1 failed attempts (or its next attempt lies
\* beyond the minutes followed).
C27_EventualDispatch ==
    \A m \in MeetingIds :
        Pending(m) ~> (~Pending(m) \/ AllAttemptsFailed(m) \/ BeyondHorizon(m))

\* C27 amended: a meeting in the state table is eventually removed from it
\* or out of retries after a failed attempt (or its next attempt lies beyond
\* the minutes followed); a reschedule_meeting of a client uses up a retry,
\* so the attempts may be fewer than max_retries + 1.
C27_EventualDispatchOrOutOfRetries ==
    \A m \in MeetingIds :
        Pending(m) ~> (~Pending(m) \/ OutOfRetries(m) \/ BeyondHorizon(m))

\* a meeting rescheduled by a client is out of retries after one attempt
\* out of the two its max_retries allows, before the minutes followed end
C27_Witness ==
    \E m \in MeetingIds :
        /\ OutOfRetries(m)
        /\ meetings[m].max_retries = 1
        /\ attempts[m] = 1
        /\ last.op = "join_failed"
        /\ now < MaxTimeLive

====
